---- MODULE Spec2Model ----
(***************************************************************************)
(* Model of the Obsidian Pomodoro Planner plugin: the plan generator       *)
(* GeneratePomodoroPlan.generatePomodoroPlan with its helpers              *)
(* (willContinue, parseTimeOrCount, parseTime, addMinutes, formatTime)     *)
(* and the modal form that drives it (onOpen handlers).                    *)
(*                                                                         *)
(* Strings are sequences of one-character strings, so that split,          *)
(* Number and parseInt are computed and not assumed.  A JavaScript Date    *)
(* is a record: valid (FALSE for an Invalid Date), m (local minutes since  *)
(* midnight of the day the form is used) and res (the seconds and          *)
(* milliseconds below the minute, which setHours and setMinutes leave      *)
(* untouched).  All readings of the clock lie on that one day.             *)
(***************************************************************************)
EXTENDS Integers, Sequences, FiniteSets, TLC

VARIABLES
    start,          \* GeneratePomodoroPlan.start (text of the start field)
    end,            \* GeneratePomodoroPlan.end (text of the end field)
    settings,       \* GeneratePomodoroPlan.settings (shared with the plugin)
    resultMarkdown, \* GeneratePomodoroPlan.resultMarkdown
    local,          \* locals of a generatePomodoroPlan call in progress
    pc,             \* position of the running handler
    clock,          \* the wall clock, as read by new Date()
    notice,         \* the Notice shown by the latest generatePomodoroPlan call
    lastEvent,      \* the handler now running, a numeric field's onChange
                    \* or a button's onClick: what it was given and what
                    \* it has put out
    saved           \* what the latest generatePomodoroPlan call stored with
                    \* Plugin.saveData: nothing while it runs, and nothing
                    \* when it returned early (the store keeps older data
                    \* then, which the model does not follow)

vars == <<start, end, settings, resultMarkdown, local, pc, clock, notice,
          lastEvent, saved>>

----------------------------------------------------------------------------
(* Bounds of the model *)

\* sub-minute residues (seconds and milliseconds) the clock can show: 0..MaxRes
MaxRes == 1
\* cap on the work counter for runs of the loop that never leave it
MaxPomodoros == 20
MinutesPerHour == 60
MinutesPerDay == 1440

----------------------------------------------------------------------------
(* JavaScript numbers: an integer or NaN *)

NaN == [nan |-> TRUE, v |-> 0]

Num(i) == [nan |-> FALSE, v |-> i]

isNaN(x) == x.nan

DigitVal(c) ==
    CASE c = "0" -> 0 [] c = "1" -> 1 [] c = "2" -> 2 [] c = "3" -> 3
      [] c = "4" -> 4 [] c = "5" -> 5 [] c = "6" -> 6 [] c = "7" -> 7
      [] c = "8" -> 8 [] c = "9" -> 9 [] OTHER -> -1

IsDigit(c) == DigitVal(c) >= 0

AllDigits(s) == \A i \in 1..Len(s) : IsDigit(s[i])

RECURSIVE DecValue(_)
DecValue(s) ==
    IF s = <<>> THEN 0
    ELSE 10 * DecValue(SubSeq(s, 1, Len(s) - 1)) + DigitVal(s[Len(s)])

\* the longest prefix of s made of digits
RECURSIVE DigitPrefix(_)
DigitPrefix(s) ==
    IF s = <<>> \/ ~IsDigit(Head(s)) THEN <<>>
    ELSE <<Head(s)>> \o DigitPrefix(Tail(s))

\* Number(s) for strings over digits, letters, ':' and '-'
Number(s) ==
    IF s = <<>> THEN Num(0)
    ELSE IF AllDigits(s) THEN Num(DecValue(s))
    ELSE IF Head(s) = "-" /\ Len(s) > 1 /\ AllDigits(Tail(s))
         THEN Num(0 - DecValue(Tail(s)))
    ELSE NaN

\* parseInt(s): optional sign, then the longest run of digits; what follows
\* is ignored; NaN when there is no digit
parseInt(s) ==
    LET neg  == s # <<>> /\ Head(s) = "-"
        body == IF neg THEN Tail(s) ELSE s
        ds   == DigitPrefix(body)
    IN  IF ds = <<>> THEN NaN
        ELSE IF neg THEN Num(0 - DecValue(ds)) ELSE Num(DecValue(ds))

\* s.split(':')
RECURSIVE split(_)
split(s) ==
    IF \A i \in 1..Len(s) : s[i] # ":" THEN <<s>>
    ELSE LET k == CHOOSE i \in 1..Len(s) :
                      s[i] = ":" /\ \A j \in 1..(i - 1) : s[j] # ":"
         IN  <<SubSeq(s, 1, k - 1)>> \o split(SubSeq(s, k + 1, Len(s)))

\* Math.floor(a / b) and a % b of JavaScript, for b > 0
JsFloorDiv(a, b) == a \div b

JsRem(a, b) == IF a >= 0 THEN a % b ELSE 0 - ((0 - a) % b)

----------------------------------------------------------------------------
(* Dates *)

InvalidDate == [valid |-> FALSE, m |-> 0, res |-> 0]

\* new Date() at reading c of the clock.  A reading is the residue below
\* the minute; its hour and minute are left out because parseTime overwrites
\* both (or yields an Invalid Date).
NewDate(c) == [valid |-> TRUE, m |-> 0, res |-> c]

setHours(d, h) ==
    IF ~d.valid \/ isNaN(h) THEN InvalidDate
    ELSE [d EXCEPT !.m = (d.m \div MinutesPerDay) * MinutesPerDay
                         + h.v * MinutesPerHour + (d.m % MinutesPerHour)]

setMinutes(d, mi) ==
    IF ~d.valid \/ isNaN(mi) THEN InvalidDate
    ELSE [d EXCEPT !.m = (d.m \div MinutesPerHour) * MinutesPerHour + mi.v]

getHours(d) == (d.m % MinutesPerDay) \div MinutesPerHour

getMinutes(d) == d.m % MinutesPerHour

\* a <= b on Dates: compares the time values; false when either is NaN
DateLE(a, b) ==
    /\ a.valid
    /\ b.valid
    /\ \/ a.m < b.m
       \/ a.m = b.m /\ a.res <= b.res

\* parseTime(time), with now the clock reading taken by new Date()
parseTime(time, now) ==
    LET parts   == split(time)
        hours   == Number(parts[1])
        minutes == IF Len(parts) >= 2 THEN Number(parts[2]) ELSE NaN
    IN  setMinutes(setHours(NewDate(now), hours), minutes)

\* addMinutes that returns the time it was given
addMinutes_Stuck(time, minutes) ==
    IF ~time.valid THEN InvalidDate ELSE time

addMinutes(time, minutes) ==
    IF ~time.valid THEN InvalidDate
    ELSE [time EXCEPT !.m = time.m + minutes]

\* formatTime(time): the hours and minutes shown (zero padding left out);
\* an Invalid Date shows as "NaN:NaN"
formatTime(time) ==
    IF time.valid
    THEN [nan |-> FALSE, hh |-> getHours(time), mm |-> getMinutes(time)]
    ELSE [nan |-> TRUE, hh |-> 0, mm |-> 0]

----------------------------------------------------------------------------
(* End condition *)

CountEnd(n) == [isNumber |-> TRUE, n |-> n, d |-> InvalidDate]

TimeEnd(d) == [isNumber |-> FALSE, n |-> 0, d |-> d]

\* willContinue with a strict comparison of the count
willContinue_Strict(currentTime, totalPomodoros, endTimeOrCount) ==
    IF endTimeOrCount.isNumber
    THEN totalPomodoros < endTimeOrCount.n
    ELSE DateLE(currentTime, endTimeOrCount.d)

willContinue(currentTime, totalPomodoros, endTimeOrCount) ==
    IF endTimeOrCount.isNumber
    THEN totalPomodoros <= endTimeOrCount.n
    ELSE DateLE(currentTime, endTimeOrCount.d)

\* parseTimeOrCount without the early return for an empty text
parseTimeOrCount_NoEmptyCheck(timeOrCount, now) ==
    LET time  == parseTime(timeOrCount, now)
        count == parseInt(timeOrCount)
    IN  IF time.valid THEN [value |-> TimeEnd(time), notice |-> FALSE]
        ELSE IF ~isNaN(count)
             THEN [value |-> CountEnd(count.v), notice |-> FALSE]
        ELSE [value |-> CountEnd(0), notice |-> TRUE]

\* parseTimeOrCount(timeOrCount): the value returned and whether the
\* 'Invalid time or count format' notice is shown
parseTimeOrCount(timeOrCount, now) ==
    LET time  == parseTime(timeOrCount, now)
        count == parseInt(timeOrCount)
    IN  IF timeOrCount = <<>> THEN [value |-> CountEnd(0), notice |-> FALSE]
        ELSE IF time.valid THEN [value |-> TimeEnd(time), notice |-> FALSE]
        ELSE IF ~isNaN(count)
             THEN [value |-> CountEnd(count.v), notice |-> FALSE]
        ELSE [value |-> CountEnd(0), notice |-> TRUE]

----------------------------------------------------------------------------
(* The text of the plan *)

\* a duration as the statistics block prints it: "h hours, m minutes" when
\* h > 0 and m > 0, "h hours" when h > 0 only, "m minutes" otherwise
DurationText(total) ==
    LET hours   == JsFloorDiv(total, MinutesPerHour)
        minutes == JsRem(total, MinutesPerHour)
    IN  IF hours > 0
        THEN IF minutes > 0
             THEN <<[n |-> hours, unit |-> "hours"],
                    [n |-> minutes, unit |-> "minutes"]>>
             ELSE <<[n |-> hours, unit |-> "hours"]>>
        ELSE <<[n |-> minutes, unit |-> "minutes"]>>

\* no statistics block
NoInfo == [present |-> FALSE, total |-> 0, work |-> <<>>, rest |-> <<>>]

\* the statistics block appended when includeStats is set
Info_WorkUpToNext(pomodoro, pomodoroCount, totalRestTime) ==
    [present |-> TRUE,
     total   |-> pomodoroCount - 1,
     work    |-> DurationText(pomodoro * pomodoroCount),
     rest    |-> DurationText(totalRestTime)]

Info(pomodoro, pomodoroCount, totalRestTime) ==
    [present |-> TRUE,
     total   |-> pomodoroCount - 1,
     work    |-> DurationText(pomodoro * (pomodoroCount - 1)),
     rest    |-> DurationText(totalRestTime)]

\* the empty string ''
EmptyMarkdown == [lines |-> <<>>, info |-> NoInfo]

\* one checklist line "- [ ] from - to label"; n is the number after
\* "Pomodoro #", 0 on a break line
Line(from, to, label, n) ==
    [from |-> formatTime(from), to |-> formatTime(to), label |-> label, n |-> n]

----------------------------------------------------------------------------
(* generatePomodoroPlan *)

DEFAULT_SETTINGS ==
    [pomodoro |-> 25, shortBreak |-> 5, longBreak |-> 15, group |-> 4,
     includeStats |-> TRUE, includeShortBreak |-> FALSE,
     includeLongBreak |-> TRUE]

NoLocal ==
    [startTime |-> InvalidDate, endTimeOrCount |-> CountEnd(0),
     currentTime |-> InvalidDate, groupCount |-> 0, totalRestTime |-> 0,
     pomodoroCount |-> 1]

\* lines 82-95: the parses and the initial values of the loop variables;
\* now1 and now2 are the clock readings of the two parseTime calls
InitLocal(startText, endText, now1, now2) ==
    [startTime      |-> parseTime(startText, now1),
     endTimeOrCount |-> parseTimeOrCount(endText, now2).value,
     currentTime    |-> parseTime(startText, now1),
     groupCount     |-> 0,
     totalRestTime  |-> 0,
     pomodoroCount  |-> 1]

\* the condition of the while loop (line 97)
LoopTest_NoLookahead(l, s) ==
    willContinue(l.currentTime, l.pomodoroCount, l.endTimeOrCount)

LoopTest(l, s) ==
    willContinue(addMinutes(l.currentTime, s.pomodoro), l.pomodoroCount,
                 l.endTimeOrCount)

\* the Pomodoro line numbered by the counter of the group
AfterPomodoro_GroupNumber(l, md, s) ==
    [local |-> [l EXCEPT !.currentTime = addMinutes(l.currentTime, s.pomodoro),
                         !.pomodoroCount = l.pomodoroCount + 1,
                         !.groupCount = l.groupCount + 1],
     md    |-> [md EXCEPT !.lines = Append(md.lines,
                    Line(l.currentTime, addMinutes(l.currentTime, s.pomodoro),
                         "Pomodoro", l.groupCount + 1))]]

\* the state after lines 100-104: the Pomodoro line is appended, the clock
\* and both counters advance
AfterPomodoro(l, md, s) ==
    [local |-> [l EXCEPT !.currentTime = addMinutes(l.currentTime, s.pomodoro),
                         !.pomodoroCount = l.pomodoroCount + 1,
                         !.groupCount = l.groupCount + 1],
     md    |-> [md EXCEPT !.lines = Append(md.lines,
                    Line(l.currentTime, addMinutes(l.currentTime, s.pomodoro),
                         "Pomodoro", l.pomodoroCount))]]

\* no look-ahead: the loop is never left by break
BreakOut_Never(l, s) == FALSE

\* the look-ahead of lines 108 and 117: TRUE when the loop is left by break
BreakOut(l, s) ==
    IF l.groupCount = s.group
    THEN ~willContinue(addMinutes(l.currentTime, s.longBreak + s.pomodoro),
                       l.pomodoroCount, l.endTimeOrCount)
    ELSE ~willContinue(addMinutes(l.currentTime, s.pomodoro + s.shortBreak),
                       l.pomodoroCount, l.endTimeOrCount)

\* a break counted as rest only when its line is shown
TakeBreak_RestWhenShown(l, md, s) ==
    IF l.groupCount = s.group
    THEN [local |-> [l EXCEPT
                       !.currentTime = addMinutes(l.currentTime, s.longBreak),
                       !.totalRestTime = IF s.includeLongBreak
                                         THEN l.totalRestTime + s.longBreak
                                         ELSE l.totalRestTime,
                       !.groupCount = 0],
          md    |-> IF s.includeLongBreak
                    THEN [md EXCEPT !.lines = Append(md.lines,
                            Line(l.currentTime,
                                 addMinutes(l.currentTime, s.longBreak),
                                 "Long Break", 0))]
                    ELSE md]
    ELSE [local |-> [l EXCEPT
                       !.currentTime = addMinutes(l.currentTime, s.shortBreak),
                       !.totalRestTime = IF s.includeShortBreak
                                         THEN l.totalRestTime + s.shortBreak
                                         ELSE l.totalRestTime],
          md    |-> IF s.includeShortBreak
                    THEN [md EXCEPT !.lines = Append(md.lines,
                            Line(l.currentTime,
                                 addMinutes(l.currentTime, s.shortBreak),
                                 "Short Break", 0))]
                    ELSE md]

\* a break taken only when its line is shown
TakeBreak_SkipHidden(l, md, s) ==
    IF l.groupCount = s.group
    THEN IF s.includeLongBreak
         THEN [local |-> [l EXCEPT
                       !.currentTime = addMinutes(l.currentTime, s.longBreak),
                       !.totalRestTime = l.totalRestTime + s.longBreak,
                       !.groupCount = 0],
               md    |-> [md EXCEPT !.lines = Append(md.lines,
                            Line(l.currentTime,
                                 addMinutes(l.currentTime, s.longBreak),
                                 "Long Break", 0))]]
         ELSE [local |-> [l EXCEPT !.groupCount = 0], md |-> md]
    ELSE IF s.includeShortBreak
         THEN [local |-> [l EXCEPT
                       !.currentTime = addMinutes(l.currentTime, s.shortBreak),
                       !.totalRestTime = l.totalRestTime + s.shortBreak],
               md    |-> [md EXCEPT !.lines = Append(md.lines,
                            Line(l.currentTime,
                                 addMinutes(l.currentTime, s.shortBreak),
                                 "Short Break", 0))]]
         ELSE [local |-> l, md |-> md]

\* a long break that leaves the counter of the group as it is
TakeBreak_NoReset(l, md, s) ==
    IF l.groupCount = s.group
    THEN [local |-> [l EXCEPT
                       !.currentTime = addMinutes(l.currentTime, s.longBreak),
                       !.totalRestTime = l.totalRestTime + s.longBreak],
          md    |-> IF s.includeLongBreak
                    THEN [md EXCEPT !.lines = Append(md.lines,
                            Line(l.currentTime,
                                 addMinutes(l.currentTime, s.longBreak),
                                 "Long Break", 0))]
                    ELSE md]
    ELSE [local |-> [l EXCEPT
                       !.currentTime = addMinutes(l.currentTime, s.shortBreak),
                       !.totalRestTime = l.totalRestTime + s.shortBreak],
          md    |-> IF s.includeShortBreak
                    THEN [md EXCEPT !.lines = Append(md.lines,
                            Line(l.currentTime,
                                 addMinutes(l.currentTime, s.shortBreak),
                                 "Short Break", 0))]
                    ELSE md]

\* lines 110-114 and 120-124: the break taken after a pomodoro
TakeBreak(l, md, s) ==
    IF l.groupCount = s.group
    THEN [local |-> [l EXCEPT
                       !.currentTime = addMinutes(l.currentTime, s.longBreak),
                       !.totalRestTime = l.totalRestTime + s.longBreak,
                       !.groupCount = 0],
          md    |-> IF s.includeLongBreak
                    THEN [md EXCEPT !.lines = Append(md.lines,
                            Line(l.currentTime,
                                 addMinutes(l.currentTime, s.longBreak),
                                 "Long Break", 0))]
                    ELSE md]
    ELSE [local |-> [l EXCEPT
                       !.currentTime = addMinutes(l.currentTime, s.shortBreak),
                       !.totalRestTime = l.totalRestTime + s.shortBreak],
          md    |-> IF s.includeShortBreak
                    THEN [md EXCEPT !.lines = Append(md.lines,
                            Line(l.currentTime,
                                 addMinutes(l.currentTime, s.shortBreak),
                                 "Short Break", 0))]
                    ELSE md]

\* lines 134-164: the text once the loop is left with a pomodoro scheduled
WithInfo(l, md, s) ==
    IF s.includeStats
    THEN [md EXCEPT !.info = Info(s.pomodoro, l.pomodoroCount, l.totalRestTime)]
    ELSE md

\* the text without the early return for an empty plan
FinalMarkdown_NoEarlyReturn(l, md, s) == WithInfo(l, md, s)

\* lines 129-164: the text when the call returns
FinalMarkdown(l, md, s) ==
    IF l.pomodoroCount - 1 = 0 THEN md ELSE WithInfo(l, md, s)

\* the while loop of lines 97-127 run to its end, or cut after MaxPomodoros
\* pomodoros
RECURSIVE whileLoop(_, _, _)
whileLoop(l, md, s) ==
    IF l.pomodoroCount >= MaxPomodoros \/ ~LoopTest(l, s)
    THEN [local |-> l, md |-> md]
    ELSE LET a == AfterPomodoro(l, md, s)
             b == TakeBreak(a.local, a.md, s)
         IN  IF BreakOut(a.local, s)
             THEN a
             ELSE whileLoop(b.local, b.md, s)

\* lines 78-170 as one function of the texts, the settings and the two clock
\* readings of its parses: the locals and the text when the call returns
generatePomodoroPlan(startText, endText, s, now1, now2) ==
    LET r == whileLoop(InitLocal(startText, endText, now1, now2),
                       EmptyMarkdown, s)
    IN  [local |-> r.local, md |-> FinalMarkdown(r.local, r.md, s)]

----------------------------------------------------------------------------
(* Inputs of the form *)

\* texts typed into the start field
StartTexts == { <<"0","9",":","0","0">>, <<"2","3",":","5","0">>, <<"a">> }

\* texts typed into the end field
EndTexts ==
    { <<>>, <<"a","b","c">>, <<"5">>,
      <<"0","9",":","1","0">>, <<"0","9",":","2","5">>,
      <<"0","9",":","3","0">>, <<"0","9",":","5","5">> }

\* texts typed into the four numeric fields
NumTexts == { <<"x","y","z">>, <<"0">> }

\* readings of the clock: the residue below the minute.  Any reading can
\* follow any other, the residue falling when the minute turns in between.
Clocks == 0..MaxRes

----------------------------------------------------------------------------
(* The form *)

\* no saveData call
NoData == [stored |-> FALSE, data |-> DEFAULT_SETTINGS]

\* a generation that never saves the settings
saveSettings_Never(l, s) == NoData

\* lines 166-170, reached only past the early return of lines 129-132:
\* saveSettings is given the plugin's settings, the object the form edits
saveSettings(l, s) ==
    IF l.pomodoroCount - 1 = 0
    THEN NoData
    ELSE [stored |-> TRUE, data |-> s]

\* no numeric edit and no click being handled
NoEvent ==
    [kind |-> "none", value |-> <<>>, notice |-> "",
     delivered |-> FALSE, text |-> EmptyMarkdown]

\* the form as constructed: settings loaded with nothing stored, the start
\* field showing the time of day, the end field empty
Init ==
    /\ start = <<"0","9",":","0","0">>
    /\ end = <<>>
    /\ settings = DEFAULT_SETTINGS
    /\ resultMarkdown = EmptyMarkdown
    /\ local = NoLocal
    /\ pc = "new"
    /\ clock \in Clocks
    /\ notice = ""
    /\ lastEvent = NoEvent
    /\ saved = NoData

\* time passes between two handlers
Tick ==
    /\ pc \in {"new", "idle"}
    /\ \E c \in Clocks :
        /\ c # clock
        /\ clock' = c
    /\ UNCHANGED <<start, end, settings, resultMarkdown, local, pc, notice,
                   lastEvent, saved>>

\* lines 80-95 of generatePomodoroPlan, entered with the given field values:
\* the text is reset, both fields are parsed (each parse reads the clock,
\* the second reading being now2) and the loop variables are initialised
BeginGenerate(startText, endText) ==
    \E now2 \in Clocks :
        /\ clock' = now2
        /\ resultMarkdown' = EmptyMarkdown
        /\ local' = InitLocal(startText, endText, clock, now2)
        /\ notice' = IF parseTimeOrCount(endText, now2).notice
                     THEN "Invalid time or count format" ELSE ""
        /\ saved' = NoData
        /\ pc' = "loop"

\* onOpen: builds the form and generates the first plan (line 363)
Open ==
    /\ pc = "new"
    /\ BeginGenerate(start, end)
    /\ UNCHANGED <<start, end, settings, lastEvent>>

\* onChange of the end field (lines 229-232)
ChangeEnd ==
    /\ pc = "idle"
    /\ \E value \in EndTexts :
        /\ end' = value
        /\ BeginGenerate(start, value)
    /\ UNCHANGED <<start, settings, lastEvent>>

\* onChange of the start field (lines 241-244)
ChangeStart ==
    /\ pc = "idle"
    /\ \E value \in StartTexts :
        /\ start' = value
        /\ BeginGenerate(value, end)
    /\ UNCHANGED <<end, settings, lastEvent>>

\* a numeric field whose value is stored and the plan regenerated whatever
\* parseInt yields
ChangeNumber_Always(field, value) ==
    /\ pc = "idle"
    /\ lastEvent' = [NoEvent EXCEPT !.kind = "edit", !.value = value]
    /\ settings' = [settings EXCEPT ![field] = parseInt(value).v]
    /\ BeginGenerate(start, end)
    /\ UNCHANGED <<start, end>>

\* onChange of a numeric field (lines 253-258, 267-272, 281-286, 295-300):
\* the value is stored and the plan regenerated when parseInt yields a
\* number, and nothing is done otherwise
ChangeNumber(field, value) ==
    /\ pc = "idle"
    /\ lastEvent' = [NoEvent EXCEPT !.kind = "edit", !.value = value]
    /\ IF ~isNaN(parseInt(value))
       THEN /\ settings' = [settings EXCEPT ![field] = parseInt(value).v]
            /\ BeginGenerate(start, end)
            /\ UNCHANGED <<start, end>>
       ELSE /\ pc' = "handled"
            /\ UNCHANGED <<start, end, settings, resultMarkdown, local,
                           clock, notice, saved>>

ChangePomodoro == \E value \in NumTexts : ChangeNumber("pomodoro", value)

ChangeShortBreak == \E value \in NumTexts : ChangeNumber("shortBreak", value)

ChangeLongBreak == \E value \in NumTexts : ChangeNumber("longBreak", value)

ChangeGroup == \E value \in NumTexts : ChangeNumber("group", value)

\* a toggle that stores its value and leaves the shown plan as it is
ChangeToggle_NoRegenerate(field) ==
    /\ pc = "idle"
    /\ \E value \in BOOLEAN :
        settings' = [settings EXCEPT ![field] = value]
    /\ UNCHANGED <<start, end, resultMarkdown, local, pc, clock, notice,
                   lastEvent, saved>>

\* onChange of a toggle (lines 308-311, 319-322, 330-333)
ChangeToggle(field) ==
    /\ pc = "idle"
    /\ \E value \in BOOLEAN :
        settings' = [settings EXCEPT ![field] = value]
    /\ BeginGenerate(start, end)
    /\ UNCHANGED <<start, end, lastEvent>>

ChangeIncludeShortBreak == ChangeToggle("includeShortBreak")

ChangeIncludeLongBreak == ChangeToggle("includeLongBreak")

ChangeIncludeStats == ChangeToggle("includeStats")

\* one pass of the while loop (lines 97-127); the loop is left when its
\* condition fails or when a look-ahead breaks out of it
LoopIter ==
    /\ pc = "loop"
    /\ local.pomodoroCount < MaxPomodoros
    /\ IF ~LoopTest(local, settings)
       THEN /\ pc' = "assemble"
            /\ UNCHANGED <<local, resultMarkdown>>
       ELSE LET a == AfterPomodoro(local, resultMarkdown, settings)
                b == TakeBreak(a.local, a.md, settings)
            IN  IF BreakOut(a.local, settings)
                THEN /\ local' = a.local
                     /\ resultMarkdown' = a.md
                     /\ pc' = "assemble"
                ELSE /\ local' = b.local
                     /\ resultMarkdown' = b.md
                     /\ pc' = "loop"
    /\ UNCHANGED <<start, end, settings, clock, notice, lastEvent, saved>>

\* lines 129-170: with nothing scheduled the result element is cleared and
\* the call returns; otherwise the statistics are appended, the text is
\* shown in the result element and the settings are saved (the plugin saves
\* its settings object, which is the one the form edits)
Assemble ==
    /\ pc = "assemble"
    /\ resultMarkdown' = FinalMarkdown(local, resultMarkdown, settings)
    /\ saved' = saveSettings(local, settings)
    /\ lastEvent' = NoEvent
    /\ pc' = "idle"
    /\ UNCHANGED <<start, end, settings, local, clock, notice>>

\* an Insert button that hands over the text without looking at it
Insert_NoCheck ==
    /\ pc = "idle"
    /\ lastEvent' = [NoEvent EXCEPT !.kind = "insert", !.delivered = TRUE,
                                    !.text = resultMarkdown]
    /\ pc' = "closed"
    /\ UNCHANGED <<start, end, settings, resultMarkdown, local, clock, notice,
                   saved>>

\* onClick of "Insert into editor" (lines 343-350): a notice when the text
\* is empty; otherwise the form is closed and the text handed to the editor
Insert ==
    /\ pc = "idle"
    /\ IF resultMarkdown = EmptyMarkdown
       THEN /\ lastEvent' = [NoEvent EXCEPT
                               !.kind = "insert",
                               !.notice = "Please generate the plan first"]
            /\ pc' = "handled"
       ELSE /\ lastEvent' = [NoEvent EXCEPT !.kind = "insert",
                                            !.delivered = TRUE,
                                            !.text = resultMarkdown]
            /\ pc' = "closed"
    /\ UNCHANGED <<start, end, settings, resultMarkdown, local, clock, notice,
                   saved>>

\* onClick of "Copy to clipboard" (lines 353-360): a notice when the text is
\* empty; otherwise the text is written to the clipboard
Copy ==
    /\ pc = "idle"
    /\ lastEvent' = IF resultMarkdown = EmptyMarkdown
                    THEN [NoEvent EXCEPT
                            !.kind = "copy",
                            !.notice = "Please generate the plan first"]
                    ELSE [NoEvent EXCEPT !.kind = "copy",
                                         !.notice = "Copied to clipboard",
                                         !.delivered = TRUE,
                                         !.text = resultMarkdown]
    /\ pc' = "handled"
    /\ UNCHANGED <<start, end, settings, resultMarkdown, local, clock,
                   notice, saved>>

\* a handler that did not regenerate the plan returns to the event loop
Return ==
    /\ pc = "handled"
    /\ lastEvent' = NoEvent
    /\ pc' = "idle"
    /\ UNCHANGED <<start, end, settings, resultMarkdown, local, clock,
                   notice, saved>>

Next ==
    \/ Tick
    \/ Open
    \/ ChangeEnd
    \/ ChangeStart
    \/ ChangePomodoro
    \/ ChangeShortBreak
    \/ ChangeLongBreak
    \/ ChangeGroup
    \/ ChangeIncludeShortBreak
    \/ ChangeIncludeLongBreak
    \/ ChangeIncludeStats
    \/ LoopIter
    \/ Assemble
    \/ Insert
    \/ Copy
    \/ Return

Spec == Init /\ [][Next]_vars

\* a handler that is running runs on: JavaScript runs it to completion
FairSpec == Spec /\ WF_vars(LoopIter) /\ WF_vars(Assemble)

----------------------------------------------------------------------------
(* Vocabulary of the properties *)

\* the settings invariants of PlanSettings
ValidSettings(s) ==
    /\ s.pomodoro > 0
    /\ s.shortBreak >= 0
    /\ s.longBreak >= 0
    /\ s.group > 0

\* a generatePomodoroPlan call has returned
Generated == pc = "idle"

workIntervalCount == local.pomodoroCount - 1

IsPomodoro(line) == line.label = "Pomodoro"

IsBreak(line) == line.label \in {"Short Break", "Long Break"}

PomodoroLines == SelectSeq(resultMarkdown.lines, IsPomodoro)

ShortBreakLines ==
    SelectSeq(resultMarkdown.lines, LAMBDA line : line.label = "Short Break")

LongBreakLines ==
    SelectSeq(resultMarkdown.lines, LAMBDA line : line.label = "Long Break")

\* the text is a time of day "H:MM" with both parts written in digits
IsTimeText(t) ==
    /\ Len(split(t)) >= 2
    /\ split(t)[1] # <<>> /\ AllDigits(split(t)[1])
    /\ split(t)[2] # <<>> /\ AllDigits(split(t)[2])

\* the minutes since midnight such a text denotes
TimeOfDay(t) == DecValue(split(t)[1]) * MinutesPerHour + DecValue(split(t)[2])

\* the minutes since midnight a rendered time denotes
Rendered(f) == f.hh * MinutesPerHour + f.mm

\* the configured duration of a line's kind
Duration(line) ==
    CASE line.label = "Pomodoro"    -> settings.pomodoro
      [] line.label = "Short Break" -> settings.shortBreak
      [] line.label = "Long Break"  -> settings.longBreak

\* the break due after the n-th pomodoro under valid settings
DueBreak(n) ==
    IF n % settings.group = 0 THEN settings.longBreak ELSE settings.shortBreak

T0900 == <<"0","9",":","0","0">>

T0930 == <<"0","9",":","3","0">>

----------------------------------------------------------------------------
(* C1 .. C10 *)

\* C1: with valid settings the plan-generation loop terminates: a call that
\* is in the loop leaves it and reaches result assembly, whatever the start
\* text and the kind of the end condition.
C1_LoopTerminates ==
    (pc = "loop" /\ ValidSettings(settings)) ~> (pc = "assemble")

\* C1 witness: assembly is reached with valid settings after the loop has
\* scheduled pomodoros against a time-kind end.
C1_Witness ==
    /\ pc = "assemble"
    /\ ValidSettings(settings)
    /\ ~local.endTimeOrCount.isNumber
    /\ workIntervalCount >= 2

\* C2: no generated plan ends with a break: the last line is a Pomodoro line
\* and every break line is immediately followed by a Pomodoro line.
C2_NoTrailingBreak ==
    Generated =>
        LET lines == resultMarkdown.lines
        IN  /\ lines # <<>> => IsPomodoro(lines[Len(lines)])
            /\ \A i \in 1..Len(lines) :
                  IsBreak(lines[i]) =>
                      i < Len(lines) /\ IsPomodoro(lines[i + 1])

\* C2 witness: a generated plan that shows a short and a long break line.
C2_Witness ==
    /\ Generated
    /\ Len(ShortBreakLines) >= 1
    /\ Len(LongBreakLines) >= 1

\* C3: with a count-kind end of value N >= 0 and valid settings exactly N work
\* intervals are scheduled: workIntervalCount = N and N Pomodoro lines.
C3_CountKindExact ==
    (/\ Generated
     /\ local.endTimeOrCount.isNumber
     /\ local.endTimeOrCount.n >= 0
     /\ ValidSettings(settings))
        => /\ workIntervalCount = local.endTimeOrCount.n
           /\ Len(PomodoroLines) = local.endTimeOrCount.n

\* C3 witness: a plan generated for the count 5.
C3_Witness ==
    /\ Generated
    /\ local.endTimeOrCount.isNumber
    /\ local.endTimeOrCount.n = 5
    /\ ValidSettings(settings)
    /\ Len(PomodoroLines) = 5

\* C4: with a time-kind end the boundary is inclusive and the plan maximal:
\* a first Pomodoro is scheduled exactly when start + pomodoro <= end, after
\* the last Pomodoro the due break plus one more pomodoro no longer fits, and
\* start 09:00, end 09:30, pomodoro 25 gives the one line 09:00 - 09:25.
C4_InclusiveMaximal ==
    (/\ Generated
     /\ IsTimeText(start)
     /\ IsTimeText(end)
     /\ ValidSettings(settings))
        => LET S == TimeOfDay(start)
               E == TimeOfDay(end)
               n == workIntervalCount
               P == PomodoroLines
           IN  /\ (n >= 1) <=> (S + settings.pomodoro <= E)
               /\ n >= 1 =>
                    /\ Len(P) = n
                    /\ Rendered(P[n].to) <= E
                    /\ Rendered(P[n].to) + DueBreak(n) + settings.pomodoro > E
               /\ (start = T0900 /\ end = T0930 /\ settings.pomodoro = 25) =>
                    /\ n = 1
                    /\ Len(P) = 1
                    /\ Rendered(P[1].from) = 540
                    /\ Rendered(P[1].to) = 565

\* C5: the committed settings always satisfy the PlanSettings invariants.
C5_SettingsAlwaysValid == ValidSettings(settings)

\* the inputs of the worked example: start 09:00, count 5, pomodoro 25,
\* short break 5, long break 15, group 4, long break lines and statistics
\* shown, short break lines not shown
C6_Inputs ==
    /\ Generated
    /\ start = T0900
    /\ end = <<"5">>
    /\ settings = DEFAULT_SETTINGS

\* what the example says of the lines and of the work statistics
C6_LinesAndWork ==
    /\ Len(PomodoroLines) = 5
    /\ Len(LongBreakLines) = 1
    /\ Len(ShortBreakLines) = 0
    /\ Len(resultMarkdown.lines) = 6
    /\ resultMarkdown.lines[4].label = "Pomodoro"
    /\ resultMarkdown.lines[4].n = 4
    /\ resultMarkdown.lines[5].label = "Long Break"
    /\ resultMarkdown.info.present
    /\ resultMarkdown.info.total = 5
    /\ resultMarkdown.info.work = <<[n |-> 2, unit |-> "hours"],
                                    [n |-> 5, unit |-> "minutes"]>>

\* C6 as stated: for the inputs of the example the plan has 5 Pomodoro lines,
\* one Long Break line after the 4th pomodoro, no Short Break line, and the
\* statistics report 5 pomodoros, 2 hours, 5 minutes of work and 15 minutes
\* of rest.
C6_ExampleRest15 ==
    C6_Inputs =>
        /\ C6_LinesAndWork
        /\ resultMarkdown.info.rest = <<[n |-> 15, unit |-> "minutes"]>>

\* C6 amended: the same plan, with a total rest time of 30 minutes (the three
\* short breaks that are taken but not shown, and the long break).
C6_ExampleRest30 ==
    C6_Inputs =>
        /\ C6_LinesAndWork
        /\ resultMarkdown.info.rest = <<[n |-> 30, unit |-> "minutes"]>>

\* C6 witness: the plan of the example has been generated.
C6_Witness == C6_Inputs /\ Len(PomodoroLines) = 5

\* C7: when no work interval is scheduled the generated text is empty: no
\* line and no statistics block, also with includeStats set.
C7_EmptyWhenNothingScheduled ==
    (Generated /\ workIntervalCount = 0) =>
        /\ resultMarkdown.lines = <<>>
        /\ ~resultMarkdown.info.present
        /\ resultMarkdown = EmptyMarkdown

\* C7 witness: nothing is scheduled for a time-kind end earlier than
\* start + pomodoro, with includeStats set.
C7_Witness ==
    /\ Generated
    /\ workIntervalCount = 0
    /\ settings.includeStats
    /\ IsTimeText(start)
    /\ IsTimeText(end)
    /\ TimeOfDay(end) < TimeOfDay(start) + settings.pomodoro

\* C8: workIntervalCount equals the number of Pomodoro lines, which are
\* numbered 1, 2, ... in the order emitted, and is the total the statistics
\* report.
C8_CountMatchesLines ==
    Generated =>
        /\ workIntervalCount = Len(PomodoroLines)
        /\ \A i \in 1..Len(PomodoroLines) : PomodoroLines[i].n = i
        /\ resultMarkdown.info.present =>
               resultMarkdown.info.total = Len(PomodoroLines)

\* C8 witness: a plan of five numbered pomodoros with break lines between.
C8_Witness ==
    /\ Generated
    /\ Len(PomodoroLines) = 5
    /\ Len(resultMarkdown.lines) > 5
    /\ resultMarkdown.info.present

\* C9: every emitted line ends at its start plus the configured duration of
\* its kind, modulo 24 hours, and shows hours 0-23 and minutes 0-59.
C9_LineEndsAfterDuration ==
    Generated =>
        \A i \in 1..Len(resultMarkdown.lines) :
            LET line == resultMarkdown.lines[i]
            IN  /\ ~line.from.nan
                /\ ~line.to.nan
                /\ line.from.hh \in 0..23 /\ line.from.mm \in 0..59
                /\ line.to.hh \in 0..23 /\ line.to.mm \in 0..59
                /\ Rendered(line.to) =
                       (Rendered(line.from) + Duration(line)) % MinutesPerDay

\* the end text is neither a time nor a count
InvalidEndText(t) ==
    /\ \A c \in Clocks : ~parseTime(t, c).valid
    /\ isNaN(parseInt(t))

\* C10 as stated: an end text that is neither a time nor an integer, the
\* empty text included, gives the count 0, a notice to the user and an
\* empty plan.
C10_InvalidEndNotified ==
    (Generated /\ InvalidEndText(end)) =>
        /\ local.endTimeOrCount = CountEnd(0)
        /\ notice = "Invalid time or count format"
        /\ resultMarkdown = EmptyMarkdown

\* C10 amended: an end text that is neither a time nor an integer gives the
\* count 0 and an empty plan; the user is notified when the text is not
\* empty, and is not notified for the empty text.
C10_InvalidEndRecovered ==
    (Generated /\ InvalidEndText(end)) =>
        /\ local.endTimeOrCount = CountEnd(0)
        /\ resultMarkdown = EmptyMarkdown
        /\ (notice = "Invalid time or count format") <=> (end # <<>>)

\* C10 witness: a plan generated for the end text "abc", with the notice.
C10_Witness ==
    /\ Generated
    /\ end = <<"a","b","c">>
    /\ notice = "Invalid time or count format"
    /\ resultMarkdown = EmptyMarkdown

-----------------------------------------------------------------------------
(* C11 .. C20 *)

\* the form shows a plan: no generatePomodoroPlan call is running
Shown == pc \in {"idle", "handled", "closed"}

\* C11: a numeric field edited to a text that parseInt turns into no number
\* is discarded: the handler leaves every setting, the start and end texts,
\* the plan, the locals and notice of the latest generation and the saved
\* data as they were, and it starts no generation.
C11_InvalidEditDiscarded ==
    [][(/\ pc = "idle"
        /\ lastEvent'.kind = "edit"
        /\ isNaN(parseInt(lastEvent'.value)))
       => (/\ settings' = settings
           /\ start' = start /\ end' = end
           /\ resultMarkdown' = resultMarkdown
           /\ local' = local /\ notice' = notice /\ saved' = saved
           /\ pc' = "handled")]_vars

\* "xyz" typed into a numeric field while a plan of five pomodoros is shown
C11_Witness ==
    /\ pc = "handled"
    /\ lastEvent.kind = "edit"
    /\ lastEvent.value = <<"x","y","z">>
    /\ isNaN(parseInt(lastEvent.value))
    /\ settings = DEFAULT_SETTINGS
    /\ Len(PomodoroLines) = 5

\* C12: a click on Insert or Copy while the plan is empty (no pomodoro was
\* scheduled) shows the notice and does nothing else: no text is handed
\* over, the form stays open and the state is as it was; a click while the
\* plan is not empty hands over the shown text, which has a Pomodoro line.
C12_EmptyPlanNotDelivered ==
    [][(pc = "idle" /\ lastEvent'.kind \in {"insert", "copy"})
       => IF workIntervalCount = 0
          THEN /\ lastEvent'.notice = "Please generate the plan first"
               /\ ~lastEvent'.delivered
               /\ pc' = "handled"
               /\ UNCHANGED <<start, end, settings, resultMarkdown, local,
                              notice, saved>>
          ELSE /\ lastEvent'.delivered
               /\ lastEvent'.text = resultMarkdown
               /\ SelectSeq(lastEvent'.text.lines, IsPomodoro) # <<>>]_vars

\* Insert clicked after the end field was edited to a text that is neither
\* a count nor a time, which leaves the plan empty
C12_Witness ==
    /\ pc = "handled"
    /\ lastEvent.kind = "insert"
    /\ lastEvent.notice = "Please generate the plan first"
    /\ end = <<"a","b","c">>
    /\ workIntervalCount = 0
    /\ resultMarkdown = EmptyMarkdown

\* C13: the plan shown is the one generatePomodoroPlan yields from the start
\* text, the end text and the settings at whatever instants its two time
\* parses read the clock: the text is a function of these three inputs alone.
C13_ClockIndependent ==
    Generated =>
        \A now1, now2 \in Clocks :
            generatePomodoroPlan(start, end, settings, now1, now2).md
                = resultMarkdown

\* C14: when Insert or Copy hands over a text, the settings stored by
\* saveData are the settings of the form, and the text is the plan generated
\* from the stored settings and the start and end texts.
C14_SavedAtDelivery ==
    lastEvent.delivered =>
        /\ saved.stored
        /\ saved.data = settings
        /\ \E now1, now2 \in Clocks :
              lastEvent.text
                = generatePomodoroPlan(start, end, saved.data, now1, now2).md

\* a plan handed to the editor after the short break lines were switched on
\* and the statistics off
C14_Witness ==
    /\ pc = "closed"
    /\ lastEvent.kind = "insert" /\ lastEvent.delivered
    /\ settings.includeShortBreak /\ ~settings.includeStats
    /\ saved.data # DEFAULT_SETTINGS
    /\ Len(lastEvent.text.lines) > 1

\* C15: whenever the form shows a plan, the text is the one
\* generatePomodoroPlan yields from the current start text, end text and
\* settings (at some pair of clock readings of its two time parses), and a
\* text handed over is that text.
C15_PlanInSync ==
    Shown =>
        /\ \E now1, now2 \in Clocks :
              resultMarkdown
                = generatePomodoroPlan(start, end, settings, now1, now2).md
        /\ lastEvent.delivered => lastEvent.text = resultMarkdown

\* a plan shown after the start, the end, a number and a toggle were edited
C15_Witness ==
    /\ pc = "idle"
    /\ start = <<"2","3",":","5","0">>
    /\ end = <<"5">>
    /\ settings.shortBreak = 0
    /\ ~settings.includeLongBreak
    /\ Len(PomodoroLines) = 5

\* the last line of the text
LastLine(md) == md.lines[Len(md.lines)]

\* C16: with a group size above 0, a pass of the loop that goes on past
\* Pomodoro #k takes a long break when k is a multiple of the group size
\* (the clock and the rest time advance by longBreak, the line when shown is
\* a Long Break, the counter of the group is back at 0) and a short break
\* otherwise; the counter of the group never exceeds the group size.
C16_BreakKindByGroup ==
    [][(pc = "loop" /\ settings.group > 0 /\ local' # local)
       => LET k     == local.pomodoroCount
              after == addMinutes(local.currentTime, settings.pomodoro)
          IN  /\ local'.groupCount <= settings.group
              /\ pc' = "loop" =>
                    IF k % settings.group = 0
                    THEN /\ local'.currentTime
                              = addMinutes(after, settings.longBreak)
                         /\ local'.totalRestTime
                              = local.totalRestTime + settings.longBreak
                         /\ local'.groupCount = 0
                         /\ LastLine(resultMarkdown').label
                              = IF settings.includeLongBreak
                                THEN "Long Break" ELSE "Pomodoro"
                    ELSE /\ local'.currentTime
                              = addMinutes(after, settings.shortBreak)
                         /\ local'.totalRestTime
                              = local.totalRestTime + settings.shortBreak
                         /\ local'.groupCount = k % settings.group
                         /\ LastLine(resultMarkdown').label
                              = IF settings.includeShortBreak
                                THEN "Short Break" ELSE "Pomodoro"]_vars

\* the loop after the long break that follows Pomodoro #4, three short
\* breaks before it
C16_Witness ==
    /\ pc = "loop"
    /\ settings.group = 4
    /\ settings.includeLongBreak /\ settings.includeShortBreak
    /\ local.pomodoroCount = 5
    /\ local.groupCount = 0
    /\ Len(ShortBreakLines) = 3
    /\ LastLine(resultMarkdown).label = "Long Break"

\* the total rest of n pomodoros under the current settings
RestOf(n) ==
    LET longs == (n - 1) \div settings.group
    IN  settings.longBreak * longs + settings.shortBreak * ((n - 1) - longs)

\* C17: for a plan of n >= 1 pomodoros and a group size g > 0 the rest time
\* is longBreak * floor((n-1)/g) + shortBreak * ((n-1) - floor((n-1)/g))
\* whatever the include flags, the work time is pomodoro * n, and the
\* statistics, when included, report these two and n.
C17_TotalRestAndWork ==
    (/\ Generated
     /\ settings.group > 0
     /\ workIntervalCount >= 1)
        => /\ local.totalRestTime = RestOf(workIntervalCount)
           /\ settings.includeStats =>
                 resultMarkdown.info
                    = [present |-> TRUE,
                       total   |-> workIntervalCount,
                       work    |-> DurationText(settings.pomodoro
                                                 * workIntervalCount),
                       rest    |-> DurationText(RestOf(workIntervalCount))]

\* five pomodoros with no break line shown: 30 minutes of rest reported
C17_Witness ==
    /\ Generated
    /\ settings = [DEFAULT_SETTINGS EXCEPT !.includeLongBreak = FALSE]
    /\ workIntervalCount = 5
    /\ Len(resultMarkdown.lines) = 5
    /\ resultMarkdown.info.present
    /\ resultMarkdown.info.rest = DurationText(30)

\* C18: with a time-kind end and valid settings the clock of the loop, once
\* an interval was scheduled, is at or before the end time, and no line of
\* the text ends after the end time.
C18_NothingPastEnd ==
    (/\ pc # "new"
     /\ ~local.endTimeOrCount.isNumber
     /\ ValidSettings(settings))
        => /\ local.pomodoroCount > 1
                => DateLE(local.currentTime, local.endTimeOrCount.d)
           /\ \A i \in 1..Len(resultMarkdown.lines) :
                 /\ ~resultMarkdown.lines[i].to.nan
                 /\ Rendered(resultMarkdown.lines[i].to)
                        <= local.endTimeOrCount.d.m

\* 09:00 to 09:55: the second pomodoro ends on the end time
C18_Witness ==
    /\ Generated
    /\ start = T0900
    /\ end = <<"0","9",":","5","5">>
    /\ ValidSettings(settings)
    /\ settings.includeShortBreak
    /\ Len(resultMarkdown.lines) = 3
    /\ Rendered(LastLine(resultMarkdown).to) = local.endTimeOrCount.d.m

\* the settings with the three include flags replaced
WithFlags(s, short, long, stats) ==
    [s EXCEPT !.includeShortBreak = short,
              !.includeLongBreak = long,
              !.includeStats = stats]

\* the latest generation run again from its parsed start and end under the
\* settings s
Rerun(s) ==
    LET r == whileLoop([local EXCEPT !.currentTime = local.startTime,
                                     !.groupCount = 0,
                                     !.totalRestTime = 0,
                                     !.pomodoroCount = 1],
                       EmptyMarkdown, s)
    IN  [local |-> r.local, md |-> FinalMarkdown(r.local, r.md, s)]

\* C19: a generation from the same parsed start and end and the same
\* interval settings under any other values of the three include flags
\* emits the same Pomodoro lines (numbers, start and end times) and computes
\* the same count of pomodoros, work time and rest time.
C19_FlagsRenderOnly ==
    Generated =>
        \A short, long, stats \in BOOLEAN :
            LET other == Rerun(WithFlags(settings, short, long, stats))
            IN  /\ SelectSeq(other.md.lines, IsPomodoro) = PomodoroLines
                /\ other.local.pomodoroCount = local.pomodoroCount
                /\ other.local.totalRestTime = local.totalRestTime
                /\ other.local.currentTime = local.currentTime
                /\ (other.md.info.present /\ resultMarkdown.info.present)
                      => other.md.info = resultMarkdown.info

\* five pomodoros shown with their short breaks, without the long break
\* and without statistics
C19_Witness ==
    /\ Generated
    /\ settings.includeShortBreak
    /\ ~settings.includeLongBreak
    /\ ~settings.includeStats
    /\ Len(PomodoroLines) = 5
    /\ Len(ShortBreakLines) = 3
    /\ local.totalRestTime = 30

\* the minutes from the end of a line to the start of the next, times of
\* day taken modulo 24 hours
Gap(a, b) ==
    (Rendered(b.from) + MinutesPerDay - Rendered(a.to)) % MinutesPerDay

\* C20: with valid settings each line of the text starts where the line
\* before it ends, except that a Pomodoro line directly after a Pomodoro
\* line starts later by the length of the break hidden between them; so
\* the lines are in order, do not overlap, and are contiguous when both
\* break lines are shown.
C20_OrderedNoOverlap ==
    (Generated /\ ValidSettings(settings)) =>
        \A i \in 1..(Len(resultMarkdown.lines) - 1) :
            LET a == resultMarkdown.lines[i]
                b == resultMarkdown.lines[i + 1]
            IN  /\ ~a.to.nan /\ ~b.from.nan
                /\ Gap(a, b) = IF IsPomodoro(a) /\ IsPomodoro(b)
                               THEN DueBreak(a.n)
                               ELSE 0
                /\ (settings.includeShortBreak /\ settings.includeLongBreak)
                      => b.from = a.to

====
